---------------------------- MODULE Spec2Model ----------------------------
(***************************************************************************)
(* A model of gg_mhtml_to_site: the conversion of a directory of MHTML     *)
(* snapshots of Google Groups posts into a static site.                    *)
(*                                                                         *)
(* Text is a sequence of tokens.  A token is a one-byte character ("a",    *)
(* "/", " "), or one of the multi-byte units the regular expressions of    *)
(* the program treat as a unit ("<i>", "</i>", "<br>", "&nbsp;", ...).     *)
(* Dates are records [y, m, d].  I/O failures of the file system are not   *)
(* modelled: every read and write of a file succeeds.                      *)
(***************************************************************************)
EXTENDS Integers, Sequences, FiniteSets, TLC

VARIABLES
    entries,    \* the directory listing read by create_site_from_mhtml_dir
    pc,         \* position of the main thread
    cursor,     \* number of directory entries the dispatch loop has consumed
    num_pages,  \* main.rs:363
    task,       \* per entry: state of the job handed to the pool
    outcome,    \* per entry: what create_page_from_mhtml produced
    chan,       \* the flume channel: outcomes sent and not yet received
    pages,      \* main.rs:381
    ret,        \* what create_site_from_mhtml_dir returned
    posts_json, \* the list written to posts.json
    fnIn,       \* input of the pure function under study (function specs)
    fnOut,      \* its output
    fnPc        \* "in" before it is applied, "out" after

vars == <<entries, pc, cursor, num_pages, task, outcome, chan, pages, ret,
          posts_json, fnIn, fnOut, fnPc>>

siteVars == <<entries, pc, cursor, num_pages, task, outcome, chan, pages, ret,
              posts_json>>

fnVars == <<fnIn, fnOut, fnPc>>

-----------------------------------------------------------------------------
(* Characters and strings                                                  *)

Digits == {"0", "1", "2", "3", "4", "5", "6", "7", "8", "9"}

Uppers == {"A", "B", "H", "J", "X"}

Lowers == {"a", "b", "c", "e", "h", "i", "j", "l", "r", "t", "u", "x", "y", "z"}

\* char::is_ascii_punctuation, on the characters the model uses
Puncts == {",", ".", "!", ":", ";", "?", "/", "_", "+", "-", "<", ">", "&"}

\* The byte value of a one-byte character: the order of Rust's str comparison.
Ord(c) ==
    CASE c = " " -> 32 [] c = "!" -> 33 [] c = "&" -> 38 [] c = "+" -> 43
      [] c = "," -> 44 [] c = "-" -> 45 [] c = "." -> 46 [] c = "/" -> 47
      [] c = "0" -> 48 [] c = "1" -> 49 [] c = "2" -> 50 [] c = "3" -> 51
      [] c = "4" -> 52 [] c = "5" -> 53 [] c = "6" -> 54 [] c = "7" -> 55
      [] c = "8" -> 56 [] c = "9" -> 57 [] c = ":" -> 58 [] c = ";" -> 59
      [] c = "<" -> 60 [] c = ">" -> 62 [] c = "?" -> 63
      [] c = "A" -> 65 [] c = "B" -> 66 [] c = "H" -> 72 [] c = "J" -> 74
      [] c = "X" -> 88 [] c = "_" -> 95
      [] c = "a" -> 97 [] c = "b" -> 98 [] c = "c" -> 99 [] c = "e" -> 101
      [] c = "h" -> 104 [] c = "i" -> 105 [] c = "j" -> 106 [] c = "l" -> 108
      [] c = "r" -> 114
      [] c = "t" -> 116 [] c = "u" -> 117 [] c = "x" -> 120 [] c = "y" -> 121
      [] c = "z" -> 122
      [] OTHER -> 0

DigitVal(c) == Ord(c) - 48

\* char::make_ascii_lowercase
ToLower(c) ==
    CASE c = "A" -> "a" [] c = "B" -> "b" [] c = "H" -> "h" [] c = "J" -> "j"
      [] c = "X" -> "x" [] OTHER -> c

\* String's partial_cmp: byte-wise lexicographic.  -1 Less, 0 Equal, 1 Greater.
RECURSIVE StrCmp(_, _)
StrCmp(a, b) ==
    IF a = <<>> /\ b = <<>> THEN 0
    ELSE IF a = <<>> THEN -1
    ELSE IF b = <<>> THEN 1
    ELSE IF Ord(Head(a)) < Ord(Head(b)) THEN -1
    ELSE IF Ord(Head(a)) > Ord(Head(b)) THEN 1
    ELSE StrCmp(Tail(a), Tail(b))

\* str::parse of a run of decimal digits, as a mathematical integer.
RECURSIVE DigitsValue(_)
DigitsValue(ds) ==
    IF ds = <<>> THEN 0
    ELSE 10 * DigitsValue(SubSeq(ds, 1, Len(ds) - 1)) + DigitVal(ds[Len(ds)])

-----------------------------------------------------------------------------
(* Calendar dates (chrono::NaiveDate)                                      *)

NoDate == [y |-> 0, m |-> 0, d |-> 0]

IsLeap(y) == (y % 4 = 0 /\ y % 100 # 0) \/ y % 400 = 0

DaysIn(y, m) ==
    IF m \in {4, 6, 9, 11} THEN 30
    ELSE IF m = 2 THEN (IF IsLeap(y) THEN 29 ELSE 28)
    ELSE 31

\* NaiveDate::from_ymd_opt: None unless the triple is a calendar date in range.
ValidYmd(y, m, d) ==
    /\ y >= -262143 /\ y <= 262142
    /\ m >= 1 /\ m <= 12
    /\ d >= 1 /\ d <= DaysIn(y, m)

\* NaiveDate's ordering.  -1 Less, 0 Equal, 1 Greater.
DateCmp(a, b) ==
    IF a.y # b.y THEN (IF a.y < b.y THEN -1 ELSE 1)
    ELSE IF a.m # b.m THEN (IF a.m < b.m THEN -1 ELSE 1)
    ELSE IF a.d # b.d THEN (IF a.d < b.d THEN -1 ELSE 1)
    ELSE 0

-----------------------------------------------------------------------------
(* Timestamp evidence: date_from_title and date_from_html                  *)

\* Results of a step that may return a value, return nothing, or panic.
None == [kind |-> "none", date |-> NoDate]

Some(dt) == [kind |-> "some", date |-> dt]

Panicked == [kind |-> "panic", date |-> NoDate]

\* The index after the maximal run of digits of t that starts at s (\d+, greedy).
RECURSIVE DigitRunEnd(_, _)
DigitRunEnd(t, s) ==
    IF s <= Len(t) /\ t[s] \in Digits THEN DigitRunEnd(t, s + 1) ELSE s

\* The match of (?P<month>\d+)/(?P<day>\d+)/(?P<year>\d+) that starts at s.
TitleMatchAt(t, s) ==
    LET e1 == DigitRunEnd(t, s)
        e2 == DigitRunEnd(t, e1 + 1)
        e3 == DigitRunEnd(t, e2 + 1)
    IN  IF /\ e1 > s /\ e1 <= Len(t) /\ t[e1] = "/"
           /\ e2 > e1 + 1 /\ e2 <= Len(t) /\ t[e2] = "/"
           /\ e3 > e2 + 1
        THEN [ok |-> TRUE, month |-> SubSeq(t, s, e1 - 1),
              day |-> SubSeq(t, e1 + 1, e2 - 1), year |-> SubSeq(t, e2 + 1, e3 - 1)]
        ELSE [ok |-> FALSE, month |-> <<>>, day |-> <<>>, year |-> <<>>]

\* A run of digits without its leading zeros.
RECURSIVE StripZeros(_)
StripZeros(ds) ==
    IF ds # <<>> /\ Head(ds) = "0" THEN StripZeros(Tail(ds)) ELSE ds

\* Whether the number a run of digits writes is greater than the one max writes.
ExceedsDec(ds, max) ==
    LET z == StripZeros(ds)
    IN  Len(z) > Len(max) \/ (Len(z) = Len(max) /\ StrCmp(z, max) = 1)

\* i32::MAX and u32::MAX, written out: the numbers themselves are compared
\* digit by digit, since u32::MAX is beyond the 32-bit integers of TLC.
I32MaxDigits == <<"2", "1", "4", "7", "4", "8", "3", "6", "4", "7">>

U32MaxDigits == <<"4", "2", "9", "4", "9", "6", "7", "2", "9", "5">>

\* The value of a run of digits that fits u32, exact below 10^9 and 10^9 from
\* there on (a month or a day that large is no calendar date either way).
U32Value(ds) ==
    LET z == StripZeros(ds)
    IN  IF Len(z) > 9 THEN 1000000000 ELSE DigitsValue(z)

\* main.rs date_from_title: the leftmost match decides; parse().unwrap() panics
\* on a run of digits that overflows i32 (year) or u32 (month, day).
date_from_title(title) ==
    LET starts == {s \in 1..Len(title) : TitleMatchAt(title, s).ok}
    IN  IF starts = {} THEN None
        ELSE LET s == CHOOSE x \in starts : \A z \in starts : x <= z
                 c == TitleMatchAt(title, s)
             IN  IF \/ ExceedsDec(c.year, I32MaxDigits)
                    \/ ExceedsDec(c.month, U32MaxDigits)
                    \/ ExceedsDec(c.day, U32MaxDigits)
                 THEN Panicked
                 ELSE LET year == DigitsValue(StripZeros(c.year))
                          month == U32Value(c.month)
                          day == U32Value(c.day)
                          full_year == IF year < 100 THEN year + 2000 ELSE year
                      IN  IF ValidYmd(full_year, month, day)
                          THEN Some([y |-> full_year, m |-> month, d |-> day])
                          ELSE None

\* The span the pattern of date_from_html captures: a three-letter month word,
\* a run of digits for the day and four digits for the year.
NoSpan == [present |-> FALSE, mon |-> "", day |-> <<>>, year |-> <<>>]

Span(mon, day, year) == [present |-> TRUE, mon |-> mon, day |-> day, year |-> year]

\* chrono's %b: the month of a three-letter abbreviation, 0 when it is none.
MonthOfAbbr(w) ==
    CASE w = "Jan" -> 1 [] w = "Feb" -> 2 [] w = "Mar" -> 3 [] w = "Apr" -> 4
      [] w = "May" -> 5 [] w = "Jun" -> 6 [] w = "Jul" -> 7 [] w = "Aug" -> 8
      [] w = "Sep" -> 9 [] w = "Oct" -> 10 [] w = "Nov" -> 11 [] w = "Dec" -> 12
      [] OTHER -> 0

\* main.rs date_from_html: no match gives None; a match is parsed with
\* "%b %d, %Y" and unwrapped, so a match that is no calendar date panics.
\* %d reads at most two digits, so a longer run leaves the ", " unmatched.
date_from_html(span) ==
    IF ~span.present THEN None
    ELSE LET m == MonthOfAbbr(span.mon)
             d == U32Value(span.day)
             y == DigitsValue(span.year)
         IN  IF m # 0 /\ Len(span.day) <= 2 /\ ValidYmd(y, m, d)
             THEN Some([y |-> y, m |-> m, d |-> d])
             ELSE Panicked


-----------------------------------------------------------------------------
(* Archives: mhtml.rs                                                      *)

\* One fragment between two boundary delimiters, as the section pattern of
\* parse_mhtml_piece reads it, and what its payload decodes to.
\*   hdr           the fragment starts with the expected header block
\*   encoding      the Content-Transfer-Encoding token
\*   payload_ok    the payload is well-formed in its encoding
\*   span, listitem, region, imgs      the decoded HTML, for the post
\*   image_ok      the decoded bytes are an image the image library decodes
RawPiece(ct, loc, enc) ==
    [hdr |-> TRUE, content_type |-> ct, location |-> loc, encoding |-> enc,
     payload_ok |-> TRUE, span |-> NoSpan, listitem |-> TRUE, region |-> TRUE,
     imgs |-> <<>>, image_ok |-> TRUE]

\* mhtml.rs parse_mhtml_piece: an unmatched header is an Err; the payload is
\* decoded with unwrap(), and any other encoding token panics.
parse_mhtml_piece(raw) ==
    IF ~raw.hdr THEN "err"
    ELSE IF raw.encoding = "base64"
         THEN (IF raw.payload_ok THEN "ok" ELSE "panic")
    ELSE IF raw.encoding = "quoted-printable"
         THEN (IF raw.payload_ok THEN "ok" ELSE "panic")
    ELSE "panic"

\* The loop of mhtml.rs parse over the fragments: the first fragment that does not
\* parse ends it, with `?' or with the panic.
RECURSIVE ParsePieces(_)
ParsePieces(raws) ==
    IF raws = <<>> THEN "ok"
    ELSE LET r == parse_mhtml_piece(Head(raws))
         IN  IF r = "ok" THEN ParsePieces(Tail(raws)) ELSE r

\* mhtml.rs parse.  header: "ok", "missing" (the header pattern does not match)
\* or "baddate" (it matches and the Date line is not RFC 2822).
parse(file) ==
    IF file.header = "missing" THEN "err"
    ELSE IF file.header = "baddate" THEN "panic"
    ELSE ParsePieces(file.pieces)

-----------------------------------------------------------------------------
(* One page: main.rs create_page_from_mhtml                                *)

\* main.rs:294-296
RECURSIVE flattened_title(_)
flattened_title(t) ==
    IF t = <<>> THEN <<>>
    ELSE LET c == IF Head(t) \in {"/", " "} THEN "_" ELSE Head(t)
         IN  IF c \in Digits \cup Uppers \cup Lowers \cup {"_"}
             THEN <<ToLower(c)>> \o flattened_title(Tail(t))
             ELSE flattened_title(Tail(t))

\* main.rs calculate_hash: the 64-bit SipHash of the URL, kept symbolic.  Two
\* different URLs are given different hashes here; the model knows no collision.
calculate_hash(url) == "hash(" \o url \o ")"

\* main.rs:297-301
Basename(file) ==
    [slug |-> flattened_title(file.subject), hash |-> calculate_hash(file.location)]

NoBase == [slug |-> <<>>, hash |-> ""]

\* Paths under the output directory: the page (basename.html), the images
\* directory (basename_images) and the files NNN.jpeg, NNN_thumbnail.jpeg in it.
PagePath(b) == [base |-> b, kind |-> "html", n |-> 0]

DirPath(b) == [base |-> b, kind |-> "images_dir", n |-> 0]

ImagePath(b, n) == [base |-> b, kind |-> "jpeg", n |-> n]

ThumbPath(b, n) == [base |-> b, kind |-> "thumbnail", n |-> n]

\* HashMap::insert
MapInsert(f, k, v) == [x \in DOMAIN f \cup {k} |-> IF x = k THEN v ELSE f[x]]

EmptyMap == [x \in {} |-> 0]

Contains(seq, x) == \E i \in 1..Len(seq) : seq[i] = x

\* main.rs:317: which sibling parts are stored.
IsStoredImage(piece, image_urls) ==
    piece.content_type = "image/jpeg" /\ Contains(image_urls, piece.location)

\* main.rs:316-332: the loop over the parts after part 0.  acc holds num_images,
\* the two maps, the paths written so far, and whether create_thumbnail
\* panicked (thumbnail.rs:12, decode().unwrap()), which ends the task.
RECURSIVE StoreImages(_, _, _, _)
StoreImages(ps, image_urls, b, acc) ==
    IF ps = <<>> \/ acc.panicked THEN acc
    ELSE LET piece == Head(ps)
         IN  IF IsStoredImage(piece, image_urls)
             THEN LET n == acc.num_images + 1
                      wrote == acc.written \cup {ImagePath(b, n)}
                  IN  IF ~piece.image_ok
                      THEN [acc EXCEPT !.num_images = n, !.written = wrote,
                                       !.image_to_path =
                                           MapInsert(@, piece.location, ImagePath(b, n)),
                                       !.panicked = TRUE]
                      ELSE StoreImages(Tail(ps), image_urls, b,
                             [num_images |-> n,
                              image_to_path |->
                                  MapInsert(acc.image_to_path, piece.location,
                                            ImagePath(b, n)),
                              image_to_thumbnail |->
                                  MapInsert(acc.image_to_thumbnail, piece.location,
                                            ThumbPath(b, n)),
                              written |-> wrote \cup {ThumbPath(b, n)},
                              panicked |-> FALSE])
             ELSE StoreImages(Tail(ps), image_urls, b, acc)

\* main.rs:333-337
RECURSIVE Thumbnails(_, _)
Thumbnails(image_urls, image_to_thumbnail) ==
    IF image_urls = <<>> THEN <<>>
    ELSE IF Head(image_urls) \in DOMAIN image_to_thumbnail
         THEN <<image_to_thumbnail[Head(image_urls)]>>
              \o Thumbnails(Tail(image_urls), image_to_thumbnail)
         ELSE Thumbnails(Tail(image_urls), image_to_thumbnail)

\* main.rs:207-219 make_output_html_for_post, the img[src] handler: the src
\* attributes of the page written, in document order.  An image the map knows
\* is rewritten to its local path; any other keeps its URL.
LinkedImages(image_urls, image_to_path) ==
    [i \in 1..Len(image_urls) |->
        IF image_urls[i] \in DOMAIN image_to_path
        THEN [local |-> TRUE, url |-> image_urls[i], path |-> image_to_path[image_urls[i]]]
        ELSE [local |-> FALSE, url |-> image_urls[i], path |-> ImagePath(NoBase, 0)]]

\* main.rs:338-344: the resolved post date, or the panic of an evidence parser.
\* post_date is what parse_groups_post stored (date_from_html, not a panic).
ResolvePostDate(post_date, title, scrape_date) ==
    IF post_date.kind = "some" THEN post_date
    ELSE LET title_date == date_from_title(title)
         IN  IF title_date.kind = "some" THEN title_date
             ELSE IF title_date.kind = "panic" THEN Panicked
             ELSE Some(scrape_date.date)

\* The Page of main.rs:64-82, but for initial_text and i_text, which are
\* functions of the post's markup alone (see get_initial_text_from_html and
\* rewrite_i_tags below).
NoPage ==
    [title |-> <<>>, scrape_date |-> [date |-> NoDate, time |-> 0],
     post_date |-> NoDate, original_url |-> "", output_file |-> PagePath(NoBase),
     images_dir |-> DirPath(NoBase), thumbnails |-> <<>>]

\* What a run of create_page_from_mhtml leaves: its result, the paths it wrote
\* and the img elements of the page it wrote.
Outcome(kind, page, written, links) ==
    [kind |-> kind, page |-> page, written |-> written, links |-> links]

\* main.rs create_page_from_mhtml: "ok" with the page, "err" (an io::Error
\* returned), or "panic" (the task unwinds and returns nothing); and the paths
\* under the output directory written on the way.
create_page_from_mhtml(file) ==
    LET doc == parse(file)
        b == Basename(file)
        mkdir == {DirPath(b)}
        html == file.pieces[1]
    IN  IF doc # "ok" THEN Outcome(doc, NoPage, {}, <<>>)
        ELSE IF file.pieces = <<>> THEN Outcome("err", NoPage, mkdir, <<>>)
        ELSE IF html.content_type # "text/html" THEN Outcome("err", NoPage, mkdir, <<>>)
        ELSE IF date_from_html(html.span).kind = "panic"
             THEN Outcome("panic", NoPage, mkdir, <<>>)
        ELSE IF ~html.listitem \/ ~html.region THEN Outcome("err", NoPage, mkdir, <<>>)
        ELSE
          LET stored == StoreImages(Tail(file.pieces), html.imgs, b,
                          [num_images |-> 0, image_to_path |-> EmptyMap,
                           image_to_thumbnail |-> EmptyMap, written |-> mkdir,
                           panicked |-> FALSE])
              resolved == ResolvePostDate(date_from_html(html.span), file.subject,
                                          file.date)
          IN  IF stored.panicked \/ resolved.kind = "panic"
              THEN Outcome("panic", NoPage, stored.written, <<>>)
              ELSE Outcome("ok",
                     [title |-> file.subject,
                      scrape_date |-> file.date,
                      post_date |-> resolved.date,
                      original_url |-> file.location,
                      output_file |-> PagePath(b),
                      images_dir |-> DirPath(b),
                      thumbnails |-> Thumbnails(html.imgs, stored.image_to_thumbnail)],
                     stored.written \cup {PagePath(b)},
                     LinkedImages(html.imgs, stored.image_to_path))


-----------------------------------------------------------------------------
(* The site: main.rs create_site_from_mhtml_dir                            *)

\* threadpool::ThreadPool::new(5)
PoolSize == 5

\* The comparator with the dates compared the other way round.
PageCmpOldestFirst(a, b) ==
    IF a.post_date = b.post_date THEN StrCmp(a.title, b.title)
    ELSE DateCmp(a.post_date, b.post_date)

\* main.rs:387-394, the comparator of pages.sort_by.  -1 Less, 0 Equal, 1 Greater.
PageCmp(a, b) ==
    IF a.post_date = b.post_date THEN StrCmp(a.title, b.title)
    ELSE DateCmp(b.post_date, a.post_date)

\* p put into the sorted list s behind every element that does not compare
\* Greater than it.
InsertPage(s, p) ==
    LET after == {k \in 1..Len(s) : PageCmp(s[k], p) = 1}
        at == IF after = {} THEN Len(s) + 1
              ELSE CHOOSE k \in after : \A z \in after : k <= z
    IN  SubSeq(s, 1, at - 1) \o <<p>> \o SubSeq(s, at, Len(s))

\* Vec::sort_by: a stable sort, so elements that compare Equal keep their order.
RECURSIVE SortPages(_)
SortPages(ps) ==
    IF ps = <<>> THEN <<>>
    ELSE InsertPage(SortPages(SubSeq(ps, 1, Len(ps) - 1)), ps[Len(ps)])

NoOutcome == Outcome("none", NoPage, {}, <<>>)

Busy == {i \in DOMAIN task : task[i] = "running"}

\* main.rs:367-379, one turn of the loop over the directory: a name ending in
\* .mhtml is counted and its job queued on the pool, any other name is skipped.
Dispatch ==
    /\ pc = "dispatch"
    /\ cursor < Len(entries)
    /\ cursor' = cursor + 1
    /\ num_pages' = IF entries[cursor + 1].mhtml THEN num_pages + 1 ELSE num_pages
    /\ task' = IF entries[cursor + 1].mhtml
               THEN [task EXCEPT ![cursor + 1] = "queued"] ELSE task
    /\ pc' = IF cursor + 1 = Len(entries) THEN "collect" ELSE "dispatch"
    /\ UNCHANGED <<entries, outcome, chan, pages, ret, posts_json, fnVars>>

\* A free worker of the pool takes the oldest queued job.
TaskStart(i) ==
    /\ pc # "exited"
    /\ task[i] = "queued"
    /\ \A j \in 1..(i - 1) : task[j] # "queued"
    /\ Cardinality(Busy) < PoolSize
    /\ task' = [task EXCEPT ![i] = "running"]
    /\ UNCHANGED <<entries, pc, cursor, num_pages, outcome, chan, pages, ret,
                   posts_json, fnVars>>

\* main.rs:374-378, the job: create_page_from_mhtml and the send of its result.
\* A panic unwinds the job before the send.  The send itself is unwrapped: it
\* fails once the receiver is gone, that is once the main thread has returned.
TaskRun(i) ==
    /\ pc # "exited"
    /\ task[i] = "running"
    /\ LET o == create_page_from_mhtml(entries[i])
       IN  /\ outcome' = [outcome EXCEPT ![i] = o]
           /\ task' = [task EXCEPT ![i] =
                          IF o.kind = "panic" THEN "panicked"
                          ELSE IF pc = "returned" THEN "send_failed"
                          ELSE "sent"]
           /\ chan' = IF o.kind # "panic" /\ pc # "returned"
                      THEN Append(chan, [src |-> i, kind |-> o.kind, page |-> o.page])
                      ELSE chan
    /\ UNCHANGED <<entries, pc, cursor, num_pages, pages, ret, posts_json, fnVars>>

\* main.rs:382-384, one turn of the collecting loop: the next result is taken
\* off the channel; an Err leaves the function at once (`?').
Recv ==
    /\ pc = "collect"
    /\ Len(pages) < num_pages
    /\ chan # <<>>
    /\ chan' = Tail(chan)
    /\ IF Head(chan).kind = "err"
       THEN /\ ret' = "err"
            /\ pc' = "returned"
            /\ pages' = pages
       ELSE /\ pages' = Append(pages, Head(chan).page)
            /\ UNCHANGED <<ret, pc>>
    /\ UNCHANGED <<entries, cursor, num_pages, task, outcome, posts_json, fnVars>>

\* main.rs:385-402: with num_pages results taken, pool.join() waits for the
\* jobs, the pages are sorted and written to posts.json, and Ok is returned.
Finish ==
    /\ pc = "collect"
    /\ Len(pages) = num_pages
    /\ \A i \in DOMAIN task : task[i] \notin {"queued", "running"}
    /\ pages' = SortPages(pages)
    /\ posts_json' = SortPages(pages)
    /\ ret' = "ok"
    /\ pc' = "returned"
    /\ UNCHANGED <<entries, cursor, num_pages, task, outcome, chan, fnVars>>

\* main.rs:405-414: main unwraps the result (or prints) and the process ends,
\* and with it every job still queued or running.
Exit ==
    /\ pc = "returned"
    /\ pc' = "exited"
    /\ UNCHANGED <<entries, cursor, num_pages, task, outcome, chan, pages, ret,
                   posts_json, fnVars>>


-----------------------------------------------------------------------------
(* Input directories                                                       *)

MaxEntries == 3

D0719 == [y |-> 2023, m |-> 7, d |-> 19]

D0720 == [y |-> 2023, m |-> 7, d |-> 20]

\* Subjects.  The ones with digits are for date_from_title: a date with a
\* two-digit and a four-digit year, digits that are no calendar date, and a
\* year beyond i32.
TitleA == <<"A">>

TitleB == <<"B">>

TitleLower == <<"a">>

TitleYY == <<"H", "i", " ", "7", "/", "1", "9", "/", "2", "3">>

TitleYYYY == <<"7", "/", "1", "9", "/", "2", "0", "2", "3">>

TitleNoDate == <<"1", "3", "/", "4", "5", "/", "2", "3">>

TitleHugeYear == <<"1", "/", "1", "/", "9", "9", "9", "9", "9", "9", "9", "9", "9", "9">>

HtmlPiece(span, imgs) ==
    [RawPiece("text/html", "cid:post", "quoted-printable")
        EXCEPT !.span = span, !.imgs = imgs]

Jpeg(loc) == RawPiece("image/jpeg", loc, "base64")

\* A directory entry: a file name ending in .mhtml or not, and the archive in it.
File(subject, date, time, location, pieces) ==
    [mhtml |-> TRUE, header |-> "ok", subject |-> subject,
     date |-> [date |-> date, time |-> time], location |-> location,
     pieces |-> pieces]

OtherEntry == [File(<<>>, NoDate, 0, "", <<>>) EXCEPT !.mhtml = FALSE]

\* The archives of the site runs.  The first two are different posts with the
\* same subject captured the same day; the third is a later snapshot of the
\* first post; the fourth carries its own timestamp; the last two do not parse.
SiteFiles ==
    { File(TitleA, D0719, 1, "u1", <<HtmlPiece(NoSpan, <<"i1">>), Jpeg("i1")>>),
      File(TitleA, D0719, 1, "u2", <<HtmlPiece(NoSpan, <<>>)>>),
      File(TitleA, D0720, 2, "u1", <<HtmlPiece(NoSpan, <<"i1">>), Jpeg("i1")>>),
      File(TitleB, D0720, 2, "u3",
           <<HtmlPiece(Span("Jul", <<"1", "9">>, <<"2", "0", "2", "3">>), <<>>)>>),
      File(TitleLower, D0719, 1, "u4", <<HtmlPiece(NoSpan, <<>>)>>),
      File(TitleB, D0719, 1, "u5",
           <<HtmlPiece(NoSpan, <<"i1">>), RawPiece("image/jpeg", "i1", "7bit")>>),
      [File(TitleB, D0719, 1, "u6", <<>>) EXCEPT !.header = "missing"],
      OtherEntry }

Directories == UNION {[1..n -> SiteFiles] : n \in 0..MaxEntries}

InitFn ==
    /\ fnIn = <<>>
    /\ fnOut = <<>>
    /\ fnPc = "idle"

InitSite(dirs) ==
    /\ entries \in dirs
    /\ pc = IF entries = <<>> THEN "collect" ELSE "dispatch"
    /\ cursor = 0
    /\ num_pages = 0
    /\ task = [i \in 1..Len(entries) |-> "none"]
    /\ outcome = [i \in 1..Len(entries) |-> NoOutcome]
    /\ chan = <<>>
    /\ pages = <<>>
    /\ ret = "none"
    /\ posts_json = <<>>
    /\ InitFn

Init == InitSite(Directories)

Next ==
    \/ Dispatch
    \/ \E i \in DOMAIN task : TaskStart(i)
    \/ \E i \in DOMAIN task : TaskRun(i)
    \/ Recv
    \/ Finish
    \/ Exit

Spec == Init /\ [][Next]_vars


-----------------------------------------------------------------------------
(* Single archives: a directory of one file, over a wider range of files   *)

Png(loc) == RawPiece("image/png", loc, "base64")

PageTitles == {TitleA, TitleYY, TitleYYYY, TitleNoDate, TitleHugeYear}

\* No timestamp; a timestamp; two spans the pattern matches that are no date.
PageSpans ==
    { NoSpan,
      Span("Jul", <<"1", "3">>, <<"2", "0", "2", "3">>),
      Span("Feb", <<"3", "1">>, <<"2", "0", "2", "3">>),
      Span("Xyz", <<"1", "3">>, <<"2", "0", "2", "3">>) }

PageImgs == { <<>>, <<"i1">>, <<"i1", "i2">>, <<"i1", "i1">> }

\* The parts after part 0.
PageSiblings ==
    { <<>>,
      <<Jpeg("i1")>>,
      <<Jpeg("i1"), Jpeg("i2")>>,
      <<Jpeg("i2"), Jpeg("i1")>>,
      <<Jpeg("i3")>>,
      <<Png("i1")>>,
      <<[Jpeg("i1") EXCEPT !.image_ok = FALSE]>>,
      <<Jpeg("i2"), [Jpeg("i1") EXCEPT !.image_ok = FALSE]>>,
      <<RawPiece("image/jpeg", "i1", "7bit")>>,
      <<[Jpeg("i1") EXCEPT !.payload_ok = FALSE]>>,
      <<[Jpeg("i1") EXCEPT !.hdr = FALSE]>> }

PageHtmls ==
    { [HtmlPiece(sp, imgs) EXCEPT !.listitem = li, !.region = rg] :
        sp \in PageSpans, imgs \in PageImgs,
        li \in BOOLEAN, rg \in BOOLEAN }

PageFiles ==
    { File(t, D0720, 2, "u1", <<h>> \o sib) :
        t \in PageTitles, h \in PageHtmls, sib \in PageSiblings }
    \cup { [File(TitleA, D0720, 2, "u1", <<>>) EXCEPT !.header = hd] :
             hd \in {"ok", "missing", "baddate"} }
    \cup { File(TitleA, D0720, 2, "u1", <<Jpeg("i1")>>), OtherEntry }

InitPage == InitSite([{1} -> PageFiles])

SpecPage == InitPage /\ [][Next]_vars

-----------------------------------------------------------------------------
(* Properties of the site                                                  *)

Done(i) == task[i] \in {"sent", "send_failed", "panicked"}

\* The pages of the archives in the order of the directory.
RECURSIVE DirOrderPages(_)
DirOrderPages(n) ==
    IF n = 0 THEN <<>>
    ELSE IF entries[n].mhtml THEN Append(DirOrderPages(n - 1), outcome[n].page)
    ELSE DirOrderPages(n - 1)

\* C1: when every file processes successfully, the list written is the same
\* for every order in which the tasks complete; in particular it is the list
\* got when they complete in the order of the directory.
C1_CompletionOrderIrrelevant ==
    ret = "ok" => posts_json = SortPages(DirOrderPages(Len(entries)))

\* An archive whose header parses and that holds a part with a transfer
\* encoding that is neither base64 nor quoted-printable.
HasUnknownEncoding(file) ==
    /\ file.mhtml
    /\ file.header = "ok"
    /\ \E k \in 1..Len(file.pieces) :
          /\ \A j \in 1..k : file.pieces[j].hdr
          /\ \A j \in 1..(k - 1) : file.pieces[j].payload_ok
          /\ file.pieces[k].encoding \notin {"base64", "quoted-printable"}

\* C2: a file with a part of unknown transfer encoding fails with an error
\* outcome that is sent to the orchestrator, and a run that has ended over
\* such a file has returned an error.
C2_UnknownEncodingIsError ==
    \A i \in DOMAIN task :
        HasUnknownEncoding(entries[i]) =>
            /\ Done(i) => outcome[i].kind = "err" /\ task[i] # "panicked"
            /\ pc = "returned" => ret = "err"

\* C3: the tasks of two different input files write no path in common.
C3_DisjointOutputPaths ==
    \A i, j \in DOMAIN task :
        (i # j /\ entries[i] # entries[j]) =>
            outcome[i].written \cap outcome[j].written = {}

\* C5: the final list is in descending order of post date and, among equal
\* dates, in ascending byte order of title.
C5_FinalListSorted ==
    ret = "ok" =>
        \A i, j \in 1..Len(posts_json) :
            i < j =>
                /\ DateCmp(posts_json[i].post_date, posts_json[j].post_date) >= 0
                /\ posts_json[i].post_date = posts_json[j].post_date
                      => StrCmp(posts_json[i].title, posts_json[j].title) <= 0

\* A run that wrote three pages, two of one date with different titles and one
\* of another date.
C5_Witness ==
    /\ ret = "ok"
    /\ Len(posts_json) = 3
    /\ \E i, j, k \in 1..3 :
          /\ posts_json[i].post_date = posts_json[j].post_date
          /\ posts_json[i].title # posts_json[j].title
          /\ posts_json[k].post_date # posts_json[i].post_date


-----------------------------------------------------------------------------
(* Properties of one page                                                  *)

\* An archive that decodes and whose part 0 is a post, so that nothing but the
\* timestamp evidence and the images is left to decide the task's outcome.
Extractable(file) ==
    /\ file.mhtml
    /\ parse(file) = "ok"
    /\ file.pieces # <<>>
    /\ file.pieces[1].content_type = "text/html"
    /\ file.pieces[1].listitem
    /\ file.pieces[1].region

Post(file) == file.pieces[1]

Siblings(file) == Tail(file.pieces)

AllImagesDecode(file) ==
    \A k \in 1..Len(Siblings(file)) : Siblings(file)[k].image_ok

\* The timestamp of the post's markup read as the specification reads it: the
\* date portion when the span is a calendar date.
EmbeddedDate(span) ==
    IF /\ span.present
       /\ MonthOfAbbr(span.mon) # 0
       /\ Len(StripZeros(span.day)) <= 2
       /\ ValidYmd(DigitsValue(span.year), MonthOfAbbr(span.mon),
                   DigitsValue(StripZeros(span.day)))
    THEN Some([y |-> DigitsValue(span.year), m |-> MonthOfAbbr(span.mon),
               d |-> DigitsValue(StripZeros(span.day))])
    ELSE None

\* The M/D/Y date of a title read as the specification reads it: three runs of
\* digits that form a calendar date, a year below 100 counted from 2000.  Runs
\* of more than six digits are no month, day or year of a calendar date.
TitleDate(title) ==
    LET starts == {s \in 1..Len(title) : TitleMatchAt(title, s).ok}
    IN  IF starts = {} THEN None
        ELSE LET c == TitleMatchAt(title, CHOOSE x \in starts : \A z \in starts : x <= z)
                 short == \A r \in {c.month, c.day, c.year} : Len(StripZeros(r)) <= 6
                 yr == DigitsValue(StripZeros(c.year))
                 yy == IF yr < 100 THEN 2000 + yr ELSE yr
                 mm == DigitsValue(StripZeros(c.month))
                 dd == DigitsValue(StripZeros(c.day))
             IN  IF short /\ ValidYmd(yy, mm, dd)
                 THEN Some([y |-> yy, m |-> mm, d |-> dd])
                 ELSE None

\* The priority chain of the specification.
ChainDate(file) ==
    IF EmbeddedDate(Post(file).span).kind = "some" THEN EmbeddedDate(Post(file).span).date
    ELSE IF TitleDate(file.subject).kind = "some" THEN TitleDate(file.subject).date
    ELSE file.date.date

\* C4: the resolved post date is the first success of the chain embedded
\* timestamp, title date, capture date; with neither of the first two the
\* resolved date is the capture date, and the task produces its outcome.
C4_DateChain ==
    \A i \in DOMAIN task :
        (Done(i) /\ Extractable(entries[i]) /\ AllImagesDecode(entries[i])) =>
            /\ outcome[i].kind = "ok"
            /\ outcome[i].page.post_date = ChainDate(entries[i])

\* A part the task stores whose bytes are no image.
HasCorruptStoredImage(file) ==
    \E k \in 1..Len(Siblings(file)) :
        /\ IsStoredImage(Siblings(file)[k], Post(file).imgs)
        /\ ~Siblings(file)[k].image_ok

\* The evidence parsers do not panic on the file.
DatesParse(file) ==
    /\ date_from_html(Post(file).span).kind # "panic"
    /\ date_from_title(file.subject).kind # "panic"

\* C6: corrupt image bytes do not abort the page: the task reports a page
\* record, and the corrupt resource has no thumbnail.
C6_CorruptImageTolerated ==
    \A i \in DOMAIN task :
        ( /\ Done(i)
          /\ Extractable(entries[i])
          /\ DatesParse(entries[i])
          /\ HasCorruptStoredImage(entries[i]) ) =>
            /\ outcome[i].kind = "ok"
            /\ task[i] = "sent"

\* Whether some part after part 0 has the location url.
HasSiblingAt(file, url) ==
    \E k \in 1..Len(Siblings(file)) : Siblings(file)[k].location = url

\* C7: in the page written, an image URL that is the location of a sibling
\* part is linked to a file the task stored, and a URL with no such part has
\* no local path and no thumbnail.
C7_MatchingPartsLinked ==
    \A i \in DOMAIN task :
        outcome[i].kind = "ok" =>
            \A k \in 1..Len(outcome[i].links) :
                LET l == outcome[i].links[k]
                IN  IF HasSiblingAt(entries[i], l.url)
                    THEN l.local /\ l.path \in outcome[i].written
                    ELSE ~l.local


-----------------------------------------------------------------------------
(* The split of an archive's body on its boundary: mhtml.rs:98-104         *)

\* One atom of a pattern with its repetition: q is "1", "*" or "+".
\*   cls "lit"  the character ch        cls "any"  `.': any character but \n
\*   cls "nl"   [\r\n]
Item(cls, ch, q) == [cls |-> cls, ch |-> ch, q |-> q]

AtomMatches(item, c) ==
    CASE item.cls = "lit" -> c = item.ch
      [] item.cls = "any" -> c # "\n"
      [] item.cls = "nl" -> c \in {"\r", "\n"}

\* The boundary token read as a pattern, which is what Regex::new does with
\* the expanded template: `.' is any character and `+' repeats the atom
\* before it.  (Tokens are not begun with `+' here, nor is a `+' doubled.)
RECURSIVE TokenAsPattern(_)
TokenAsPattern(tok) ==
    IF tok = <<>> THEN <<>>
    ELSE LET cls == IF Head(tok) = "." THEN "any" ELSE "lit"
         IN  IF Len(tok) >= 2 /\ tok[2] = "+"
             THEN <<Item(cls, Head(tok), "+")>> \o TokenAsPattern(Tail(Tail(tok)))
             ELSE <<Item(cls, Head(tok), "1")>> \o TokenAsPattern(Tail(tok))

\* The boundary token with every character standing for itself.
TokenAsLiteral(tok) == [k \in 1..Len(tok) |-> Item("lit", tok[k], "1")]

\* mhtml.rs:99, the template [\r\n]*-*$boundary-*[\r\n]* around the token.
DelimiterPattern(items) ==
    <<Item("nl", "", "*"), Item("lit", "-", "*")>> \o items
        \o <<Item("lit", "-", "*"), Item("nl", "", "*")>>

\* mhtml.rs:99-100: the pattern the program compiles for a boundary token.
boundary_re(tok) == DelimiterPattern(TokenAsPattern(tok))

\* The number of characters of text from pos on that match the atom.
RECURSIVE RunLength(_, _, _)
RunLength(item, text, pos) ==
    IF pos <= Len(text) /\ AtomMatches(item, text[pos])
    THEN 1 + RunLength(item, text, pos + 1) ELSE 0

\* The regex engine's match of items k.. at pos: the position after the match
\* it prefers (repetitions are greedy and give back one at a time), 0 if none.
RECURSIVE MatchEnd(_, _, _, _), MatchRepeat(_, _, _, _, _)
MatchEnd(items, k, text, pos) ==
    IF k > Len(items) THEN pos
    ELSE IF items[k].q = "1"
         THEN IF pos <= Len(text) /\ AtomMatches(items[k], text[pos])
              THEN MatchEnd(items, k + 1, text, pos + 1) ELSE 0
         ELSE MatchRepeat(items, k, text, pos, RunLength(items[k], text, pos))

MatchRepeat(items, k, text, pos, count) ==
    IF count < (IF items[k].q = "+" THEN 1 ELSE 0) THEN 0
    ELSE LET e == MatchEnd(items, k + 1, text, pos + count)
         IN  IF e # 0 THEN e ELSE MatchRepeat(items, k, text, pos, count - 1)

\* Regex::split: the text between successive leftmost matches, from pos on.
RECURSIVE RegexSplit(_, _, _)
RegexSplit(items, text, pos) ==
    LET starts == {s \in pos..Len(text) : MatchEnd(items, 1, text, s) # 0}
    IN  IF starts = {} THEN <<SubSeq(text, pos, Len(text))>>
        ELSE LET s == CHOOSE x \in starts : \A z \in starts : x <= z
             IN  <<SubSeq(text, pos, s - 1)>>
                     \o RegexSplit(items, text, MatchEnd(items, 1, text, s))

\* .filter(|x| !x.is_empty())
NonEmpty(frags) == SelectSeq(frags, LAMBDA f : f # <<>>)

\* A fragment as parse_mhtml_piece reads it: the character "H" stands for a
\* well-formed header block of a part, and what follows it for its payload.
FragmentAsPiece(frag) ==
    [RawPiece("text/html", "cid:part", "quoted-printable")
        EXCEPT !.hdr = (frag # <<>> /\ Head(frag) = "H")]

\* mhtml.rs:98-105: the body is split on the pattern of the boundary and every
\* non-empty fragment parsed as a part.
SplitAndParse(tok, body) ==
    LET frags == NonEmpty(RegexSplit(boundary_re(tok), body, 1))
    IN  [pieces |-> frags,
         result |-> ParsePieces([k \in 1..Len(frags) |-> FragmentAsPiece(frags[k])])]


\* The site is not run while a function is studied on its own.
SiteOff ==
    /\ entries = <<>>
    /\ pc = "off"
    /\ cursor = 0
    /\ num_pages = 0
    /\ task = <<>>
    /\ outcome = <<>>
    /\ chan = <<>>
    /\ pages = <<>>
    /\ ret = "none"
    /\ posts_json = <<>>

MaxParts == 2

\* Boundary tokens: one of plain characters, and three that hold characters
\* the regex syntax gives a meaning.
BoundaryTokens ==
    { <<"c", "t">>,
      <<"a", ".", "b">>,
      <<"a", "+", "b">>,
      <<"a", ".", "b", "+", "c">> }

\* Parts: a header block and a payload.  No payload holds a boundary token,
\* and some hold text that a token matches when it is read as a pattern.
PartTexts ==
    { <<"H">>,
      <<"H", "x">>,
      <<"H", "a", "x", "b">>,
      <<"H", "a", "a", "b">>,
      <<"H", "a", "x", "b", "b", "c">> }

RECURSIVE Concat(_)
Concat(seqs) == IF seqs = <<>> THEN <<>> ELSE Head(seqs) \o Concat(Tail(seqs))

\* The body of a well-formed archive: every part behind a delimiter line, and
\* the closing delimiter.
WellFormedBody(tok, parts) ==
    Concat([k \in 1..Len(parts) |-> <<"\n", "-", "-">> \o tok \o <<"\n">> \o parts[k]])
        \o <<"\n", "-", "-">> \o tok \o <<"-", "-", "\n">>

PartLists == UNION {[1..n -> PartTexts] : n \in 1..MaxParts}

SplitInputs ==
    { [boundary |-> tok, parts |-> ps, body |-> WellFormedBody(tok, ps)] :
        tok \in BoundaryTokens, ps \in PartLists }

InitSplit ==
    /\ SiteOff
    /\ fnIn \in SplitInputs
    /\ fnOut = <<>>
    /\ fnPc = "split"

Split ==
    /\ fnPc = "split"
    /\ fnOut' = SplitAndParse(fnIn.boundary, fnIn.body)
    /\ fnPc' = "split_done"
    /\ UNCHANGED <<fnIn, siteVars>>

NextSplit == Split

SpecSplit == InitSplit /\ [][NextSplit]_vars

\* The split of a body at the occurrences of the token as a literal string.
LiteralSplit(tok, body) ==
    NonEmpty(RegexSplit(DelimiterPattern(TokenAsLiteral(tok)), body, 1))

\* C8: whatever characters the boundary token holds, a well-formed body is
\* split at the occurrences of the literal token, into its parts, and decodes.
C8_BoundaryIsLiteral ==
    fnPc = "split_done" =>
        /\ fnOut.pieces = LiteralSplit(fnIn.boundary, fnIn.body)
        /\ fnOut.pieces = fnIn.parts
        /\ fnOut.result = "ok"

\* The literal split of a well-formed body gives back its parts.
LiteralSplitGivesParts ==
    LiteralSplit(fnIn.boundary, fnIn.body) = fnIn.parts


-----------------------------------------------------------------------------
(* Text of markup: main.rs get_text_from_html, get_initial_text_from_html  *)
(*                                                                         *)
(* Markup is a sequence of characters, tags and entities spelled out:      *)
(* <<"<", "i", ">">>, <<"&", "l", "t", ";">>.  "NBSP" is the one character *)
(* U+00A0, which takes two bytes in UTF-8.                                 *)

INITIAL_TEXT_MAX_LEN == 140

MIN_I_TEXT_LEN == 3

MAX_I_TEXT_LEN == 50

\* \s of the regex crate and char::is_whitespace: Unicode White_Space.
SpaceChars == {" ", "\n", "\t", "\r", "NBSP"}

IsSpace(c) == c \in SpaceChars

\* char::is_ascii_whitespace
AsciiSpaceChars == {" ", "\n", "\t", "\r"}

\* The least element of a non-empty set of positions.
Least(S) == CHOOSE x \in S : \A z \in S : x <= z

\* str::len: the length in bytes.
ByteLen(t) == Len(t) + Cardinality({k \in 1..Len(t) : t[k] = "NBSP"})

\* Whether lit stands in t at pos.
LitAt(t, pos, lit) ==
    /\ pos + Len(lit) - 1 <= Len(t)
    /\ SubSeq(t, pos, pos + Len(lit) - 1) = lit

\* The least position from pos on where c stands in t, 0 if there is none.
IndexOfChar(t, pos, c) ==
    LET hits == {k \in pos..Len(t) : t[k] = c}
    IN  IF hits = {} THEN 0 ELSE Least(hits)

\* Whether <[^>]+> matches in t at s.
TagAt(t, s) == t[s] = "<" /\ IndexOfChar(t, s + 1, ">") >= s + 2

\* main.rs:115: every match of <[^>]+> replaced by a space.
RECURSIVE StripTags(_, _)
StripTags(t, pos) ==
    LET starts == {s \in pos..Len(t) : TagAt(t, s)}
    IN  IF starts = {} THEN SubSeq(t, pos, Len(t))
        ELSE LET s == Least(starts)
             IN  SubSeq(t, pos, s - 1) \o <<" ">>
                     \o StripTags(t, IndexOfChar(t, s + 1, ">") + 1)

\* The position after the run of whitespace that starts at pos.
SpaceRunEnd(t, pos) ==
    LET others == {k \in pos..Len(t) : ~IsSpace(t[k])}
    IN  IF others = {} THEN Len(t) + 1 ELSE Least(others)

\* main.rs:117: every match of \s+ replaced by a space.
RECURSIVE CompressSpaces(_, _)
CompressSpaces(t, pos) ==
    LET spaces == {k \in pos..Len(t) : IsSpace(t[k])}
    IN  IF spaces = {} THEN SubSeq(t, pos, Len(t))
        ELSE LET s == Least(spaces)
             IN  SubSeq(t, pos, s - 1) \o <<" ">>
                     \o CompressSpaces(t, SpaceRunEnd(t, s))

\* main.rs:119: a space before one of , . ! : ; ? removed.
RECURSIVE Despace(_, _)
Despace(t, pos) ==
    LET hits == {k \in pos..(Len(t) - 1) :
                    t[k] = " " /\ t[k + 1] \in {",", ".", "!", ":", ";", "?"}}
    IN  IF hits = {} THEN SubSeq(t, pos, Len(t))
        ELSE LET s == Least(hits)
             IN  SubSeq(t, pos, s - 1) \o <<t[s + 1]>> \o Despace(t, s + 2)

\* The named character references the model's markup uses.  In text, each is
\* also recognised without its semicolon.
EntityNames ==
    { [name |-> <<"&", "l", "t">>, char |-> "<"],
      [name |-> <<"&", "g", "t">>, char |-> ">"],
      [name |-> <<"&", "a", "m", "p">>, char |-> "&"],
      [name |-> <<"&", "n", "b", "s", "p">>, char |-> "NBSP"] }

\* htmlize::unescape: one left-to-right pass that expands the references.
RECURSIVE Unescape(_, _)
Unescape(t, pos) ==
    LET hits == {k \in pos..Len(t) : \E e \in EntityNames : LitAt(t, k, e.name)}
    IN  IF hits = {} THEN SubSeq(t, pos, Len(t))
        ELSE LET s == Least(hits)
                 e == CHOOSE x \in EntityNames : LitAt(t, s, x.name)
                 after == s + Len(e.name)
             IN  SubSeq(t, pos, s - 1) \o <<e.char>>
                     \o Unescape(t,
                          IF after <= Len(t) /\ t[after] = ";" THEN after + 1 ELSE after)

\* A string without the characters of a set at its two ends.
TrimChars(t, chars) ==
    LET keep == {k \in 1..Len(t) : t[k] \notin chars}
    IN  IF keep = {} THEN <<>>
        ELSE SubSeq(t, CHOOSE k \in keep : \A z \in keep : k <= z,
                       CHOOSE k \in keep : \A z \in keep : k >= z)

\* str::trim
Trim(t) == TrimChars(t, SpaceChars)

\* main.rs:106-121
get_text_from_html(html) ==
    Trim(Unescape(Despace(CompressSpaces(StripTags(html, 1), 1), 1), 1))

\* unicode_truncate: the longest prefix of display width at most max; every
\* character of the model is one column wide.
UnicodeTruncate(t, max) == SubSeq(t, 1, IF Len(t) < max THEN Len(t) ELSE max)

\* main.rs:273-281
Ellipsis == <<".", ".", ".">>

\* main.rs:277: whether the text was cut, so that the marker is appended.
EllipsisAppended(html) ==
    LET text == get_text_from_html(html)
    IN  ByteLen(UnicodeTruncate(text, INITIAL_TEXT_MAX_LEN)) < ByteLen(text)

get_initial_text_from_html(html) ==
    LET text == get_text_from_html(html)
        truncated == UnicodeTruncate(text, INITIAL_TEXT_MAX_LEN)
    IN  IF EllipsisAppended(html) THEN truncated \o Ellipsis ELSE truncated


-----------------------------------------------------------------------------
(* Emphasis runs: main.rs rewrite_i_tags                                   *)

TagIOpen == <<"<", "i", ">">>

TagIClose == <<"<", "/", "i", ">">>

NbspEntity == <<"&", "n", "b", "s", "p", ";">>

\* .*?</i> from q on: the position of the nearest </i> that no line break
\* comes before (`.' is any character but \n), 0 if there is none.
FindIClose(t, q) ==
    LET stops == {k \in q..Len(t) : LitAt(t, k, TagIClose) \/ t[k] = "\n"}
    IN  IF stops = {} THEN 0
        ELSE IF LitAt(t, Least(stops), TagIClose) THEN Least(stops)
        ELSE 0

\* <i>.*?</i> at p: the position after it, 0 if it does not match there.
IElementEnd(t, p) ==
    IF ~LitAt(t, p, TagIOpen) THEN 0
    ELSE LET q == FindIClose(t, p + Len(TagIOpen))
         IN  IF q = 0 THEN 0 ELSE q + Len(TagIClose)

\* (\s|&nbsp;)* at r, greedy: the position after it.
RECURSIVE SeparatorsEnd(_, _)
SeparatorsEnd(t, r) ==
    IF r <= Len(t) /\ IsSpace(t[r]) THEN SeparatorsEnd(t, r + 1)
    ELSE IF LitAt(t, r, NbspEntity) THEN SeparatorsEnd(t, r + Len(NbspEntity))
    ELSE r

\* main.rs:141, (<i>.*?</i>(\s|&nbsp;)*)+ at p: the position after the match,
\* 0 if it does not match there.
RECURSIVE RepeatedIEnd(_, _)
RepeatedIEnd(t, p) ==
    LET e == IElementEnd(t, p)
    IN  IF e = 0 THEN 0
        ELSE LET r == SeparatorsEnd(t, e)
                 more == RepeatedIEnd(t, r)
             IN  IF more # 0 THEN more ELSE r

\* main.rs:143,148: every match of </?i> removed.
RECURSIVE RemoveITags(_, _)
RemoveITags(t, pos) ==
    LET hits == {k \in pos..Len(t) : LitAt(t, k, TagIOpen) \/ LitAt(t, k, TagIClose)}
    IN  IF hits = {} THEN SubSeq(t, pos, Len(t))
        ELSE LET s == Least(hits)
                 tag == IF LitAt(t, s, TagIOpen) THEN TagIOpen ELSE TagIClose
             IN  SubSeq(t, pos, s - 1) \o RemoveITags(t, s + Len(tag))

\* main.rs:153-155
AsciiTrimChars == Puncts \cup AsciiSpaceChars

\* main.rs:156-163: the text of a merged run is recorded when its length is
\* in bounds and the set does not know it.  acc is [i_texts, known].
RecordIText(acc, text) ==
    IF /\ ByteLen(text) >= MIN_I_TEXT_LEN
       /\ ByteLen(text) <= MAX_I_TEXT_LEN
       /\ text \notin acc.known
    THEN [i_texts |-> Append(acc.i_texts, text), known |-> acc.known \cup {text}]
    ELSE acc

\* main.rs:145-166, replace_all from pos on: the markup written and the
\* texts recorded.
RECURSIVE RewriteFrom(_, _, _)
RewriteFrom(t, pos, acc) ==
    LET starts == {k \in pos..Len(t) : RepeatedIEnd(t, k) # 0}
    IN  IF starts = {} THEN [html |-> SubSeq(t, pos, Len(t)), i_texts |-> acc.i_texts]
        ELSE LET s == Least(starts)
                 e == RepeatedIEnd(t, s)
                 i_html == SubSeq(t, s, e - 1)
                 output_html == TagIOpen \o RemoveITags(i_html, 1) \o TagIClose
                 text == TrimChars(get_text_from_html(output_html), AsciiTrimChars)
                 rest == RewriteFrom(t, e, RecordIText(acc, text))
             IN  [rest EXCEPT !.html = SubSeq(t, pos, s - 1) \o output_html \o @]

\* main.rs:136-167.  known_i_texts starts empty whatever i_texts holds.
rewrite_i_tags(html, i_texts) ==
    RewriteFrom(html, 1, [i_texts |-> i_texts, known |-> {}])


\* Fragments are built of segments: an <i> element with the separator that
\* follows it, or markup that is neither.
MaxSegs == 3

IElem(inner, sep) ==
    [kind |-> "i", inner |-> inner, sep |-> sep,
     markup |-> TagIOpen \o inner \o TagIClose \o sep]

Other(markup) == [kind |-> "other", inner |-> <<>>, sep |-> <<>>, markup |-> markup]

LongText == [k \in 1..(MAX_I_TEXT_LEN + 1) |-> "x"]

Segments ==
    { IElem(<<"h", "i">>, <<" ">>),
      IElem(<<"h", "i">>, NbspEntity),
      IElem(<<"t", "h", "e", "r", "e">>, <<>>),
      IElem(<<"h", "i", " ", "t", "h", "e", "r", "e">>, <<"\n">>),
      IElem(<<",", "h", "i", "!">>, <<>>),
      IElem(LongText, <<" ">>),
      IElem(<<"d", "\n", "e", "f">>, <<" ">>),
      Other(<<"<", "b", "r", ">">>),
      Other(<<"x">>) }

SegLists == UNION {[1..n -> Segments] : n \in 1..MaxSegs}

ITagsInputs ==
    { [segs |-> sl, html |-> Concat([k \in 1..Len(sl) |-> sl[k].markup])] :
        sl \in SegLists }

InitITags ==
    /\ SiteOff
    /\ fnIn \in ITagsInputs
    /\ fnOut = <<>>
    /\ fnPc = "itags"

RewriteITags ==
    /\ fnPc = "itags"
    /\ fnOut' = rewrite_i_tags(fnIn.html, <<>>)
    /\ fnPc' = "itags_done"
    /\ UNCHANGED <<fnIn, siteVars>>

NextITags == RewriteITags

SpecITags == InitITags /\ [][NextITags]_vars

\* The text of a run of <i> elements: what the elements and the separators
\* between them read as, without punctuation and whitespace at the ends.
RunText(run) ==
    TrimChars(
        get_text_from_html(
            TagIOpen \o Concat([k \in 1..Len(run) |-> run[k].inner \o run[k].sep])
                \o TagIClose),
        AsciiTrimChars)

\* The runs of a fragment: the maximal sequences of adjacent <i> segments.
RECURSIVE RunsOf(_, _)
RunsOf(segs, cur) ==
    IF segs = <<>> THEN (IF cur = <<>> THEN <<>> ELSE <<cur>>)
    ELSE IF Head(segs).kind = "i" THEN RunsOf(Tail(segs), Append(cur, Head(segs)))
    ELSE (IF cur = <<>> THEN <<>> ELSE <<cur>>) \o RunsOf(Tail(segs), <<>>)

\* One entry per run whose text has a length in bounds, in the order of the
\* runs, a text seen before left out.
RECURSIVE EntriesOfRuns(_, _)
EntriesOfRuns(runs, seen) ==
    IF runs = <<>> THEN seen
    ELSE LET text == RunText(Head(runs))
         IN  EntriesOfRuns(Tail(runs),
                 IF /\ ByteLen(text) >= MIN_I_TEXT_LEN
                    /\ ByteLen(text) <= MAX_I_TEXT_LEN
                    /\ ~Contains(seen, text)
                 THEN Append(seen, text) ELSE seen)

NoRepeats(seq) == \A i, j \in 1..Len(seq) : seq[i] = seq[j] => i = j

\* C9: the texts rewrite_i_tags records from an empty list hold no string
\* twice, each has a byte length of 3 to 50 once ASCII punctuation and
\* whitespace is trimmed off its ends, and they are exactly one entry for
\* every whole run of <i> elements separated by nothing but whitespace or
\* &nbsp;, in the order the runs first occur, a repeated run adding nothing.
C9_OneEntryPerRun ==
    fnPc = "itags_done" =>
        /\ NoRepeats(fnOut.i_texts)
        /\ \A k \in 1..Len(fnOut.i_texts) :
              LET e == TrimChars(fnOut.i_texts[k], AsciiTrimChars)
              IN  ByteLen(e) >= MIN_I_TEXT_LEN /\ ByteLen(e) <= MAX_I_TEXT_LEN
        /\ fnOut.i_texts = EntriesOfRuns(RunsOf(fnIn.segs, <<>>), <<>>)


-----------------------------------------------------------------------------
(* Lead text: get_initial_text_from_html applied to fragments              *)

MaxFrags == 3

\* Text one character short of the limit.
NearLimit == [k \in 1..(INITIAL_TEXT_MAX_LEN - 1) |-> "x"]

Fragments ==
    { <<"a">>,
      <<" ">>,
      <<",">>,
      <<"<", "p", ">">>,
      <<"&", "l", "t", ";">>,
      <<"&", "g", "t", ";">>,
      <<"&", "a", "m", "p", ";">>,
      <<"l", "t", ";">>,
      NbspEntity,
      Ellipsis,
      NearLimit }

FragLists == UNION {[1..n -> Fragments] : n \in 1..MaxFrags}

LeadInputs == {Concat(fl) : fl \in FragLists}

InitLead ==
    /\ SiteOff
    /\ fnIn \in LeadInputs
    /\ fnOut = <<>>
    /\ fnPc = "lead"

Lead ==
    /\ fnPc = "lead"
    /\ fnOut' = [lead |-> get_initial_text_from_html(fnIn),
                 appended |-> EllipsisAppended(fnIn)]
    /\ fnPc' = "lead_done"
    /\ UNCHANGED <<fnIn, siteVars>>

NextLead == Lead

SpecLead == InitLead /\ [][NextLead]_vars

\* The lead text without the marker, when the marker was appended.
WithoutMarker(out) ==
    IF out.appended THEN SubSeq(out.lead, 1, Len(out.lead) - Len(Ellipsis))
    ELSE out.lead

\* C10: the lead text of a fragment, the appended "..." marker taken off, is
\* its own lead text: get_initial_text_from_html gives it back unchanged.
C10_LeadTextIdempotent ==
    fnPc = "lead_done" =>
        get_initial_text_from_html(WithoutMarker(fnOut)) = WithoutMarker(fnOut)


-----------------------------------------------------------------------------
(* The site under fair scheduling                                          *)

\* The main thread keeps running while it has a step to take, a free worker
\* of the pool takes a queued job, and a job that runs comes to its end.
Fairness ==
    /\ WF_vars(Dispatch)
    /\ WF_vars(Recv)
    /\ WF_vars(Finish)
    /\ WF_vars(Exit)
    /\ \A i \in 1..MaxEntries : WF_vars(i \in DOMAIN task /\ TaskStart(i))
    /\ \A i \in 1..MaxEntries : WF_vars(i \in DOMAIN task /\ TaskRun(i))

\* Directories of an archive that is processed, one whose part has an unknown
\* transfer encoding, one whose header does not match, and a file that is no
\* archive.
FairFiles ==
    { f \in SiteFiles :
        \/ ~f.mhtml
        \/ f.location \in {"u2", "u5", "u6"} }

InitFair == InitSite(UNION {[1..n -> FairFiles] : n \in 0..MaxEntries})

SpecFair == InitFair /\ [][Next]_vars /\ Fairness

Dispatched(i) == i \in DOMAIN task /\ task[i] = "queued"

Sent(i) == i \in DOMAIN task /\ task[i] = "sent"

\* C11: every task dispatched to the pool eventually sends its outcome on the
\* channel, whatever its file holds, and create_site_from_mhtml_dir
\* eventually returns.
C11_EveryTaskReports ==
    /\ \A i \in 1..MaxEntries : Dispatched(i) ~> Sent(i)
    /\ <>(pc \in {"returned", "exited"})

\* C12: at the moment an error is returned to the caller, no dispatched task
\* is still queued or running, and no outcome is left undelivered on the
\* channel.
C12_ErrorAfterAllTasksComplete ==
    (pc = "returned" /\ ret = "err") =>
        /\ \A i \in DOMAIN task : task[i] \notin {"queued", "running"}
        /\ chan = <<>>


=============================================================================
